---- MODULE Spec2Model ----
(***************************************************************************)
(* RoboNotesComplexEnv (src/complex_env.py): a gym environment that        *)
(* accumulates a trajectory of pitch vectors, scores it with calc_reward   *)
(* and renders it as MIDI.                                                 *)
(*                                                                         *)
(* numpy arrays are objects: obs_trajectory is a reference into heap, and  *)
(* reset/step return that reference.  Rows are numbered 1..L here and      *)
(* 0..L-1 in the source, so source row k is model row k+1 and source       *)
(* cursor c names the model rows 1..c.  Rewards are modelled as integers.  *)
(***************************************************************************)
EXTENDS Integers, Sequences, FiniteSets, TLC

\* ------------------------------------------------------------------ bounds
MaxLen == 2
MaxPitches == 2
MaxFiles == 1

\* ------------------------------------------------------- program constants
\* spaces.Box(low=0, high=37, ...)
BoxLow == 0
BoxHigh == 37

VARIABLES
    max_trajectory_len,  \* self.max_trajectory_len
    num_pitches,         \* self.num_pitches
    midi_savedir,        \* self.midi_savedir ("" is None)
    heap,                \* the numpy arrays alive: buffer id -> rows
    obs_trajectory,      \* self.obs_trajectory, a buffer id
    trajectory_idx,      \* self.trajectory_idx
    total_reward,        \* self.total_reward
    partial_rewards,     \* self.partial_rewards
    files,               \* number of MIDI files written so far
    ret,                 \* what the last call returned (or raised, or printed)
    actions,             \* history: actions step accepted since the last reset
    rewards,             \* history: rewards step returned since the last reset
    infos,               \* history: infos step returned since the last reset
    scored,              \* history: calc_reward calls of step since the last reset
    before,              \* history: the instance's state when the last call began
    stale,               \* history: the current episode began with a reset that
                         \* discarded steps and ledger entries
    began,               \* history: what began the current episode, "init" or "reset"
    dir_calls,           \* history: render and save_midi calls made with a directory
    held,                \* the caller: the array it kept from a return value, if any
    frozen               \* the caller: what the kept array held when a reset
                         \* replaced it in the instance, if one has

config == <<max_trajectory_len, num_pitches, midi_savedir>>
env == <<heap, obs_trajectory, trajectory_idx, total_reward, partial_rewards>>
history == <<actions, rewards, infos, scored>>
caller == <<held, frozen>>
vars == <<config, env, files, ret, history, before, stale, began, dir_calls, caller>>

\* ------------------------------------------------------------ plain values
BufIds == {1, 2, 3}
Free == <<>>
EmptyMap == [k \in {} |-> 0]
SaveDirs == {"", "midi_out"}

\* The constructions explored: every (max_trajectory_len, num_pitches) within the
\* bounds, and the four-step two-voice episode.
Configs == ((1..MaxLen) \X (1..MaxPitches)) \cup {<<4, 2>>}

\* The pitch vectors an agent supplies; a vector of n pitches repeats the pattern.
ActionPatterns == {<<5, 0>>, <<0, 0>>, <<7, 1>>, <<1, 1>>, <<37, 38>>}

ActionOf(p, n) == [i \in 1..n |-> p[((i - 1) % Len(p)) + 1]]

ActionInputs(n) == {ActionOf(p, n) : p \in ActionPatterns}

RECURSIVE SumSeq(_)
SumSeq(s) == IF s = <<>> THEN 0 ELSE s[1] + SumSeq(Tail(s))

\* -------------------------------------------------------------- the spaces
\* Mutant of BoxContainsElem: the upper bound is exclusive.
BoxContainsElemExclusive(v) == BoxLow <= v /\ v < BoxHigh

\* gym's Box.contains: the shape matches and low <= x <= high elementwise.
BoxContainsElem(v) == BoxLow <= v /\ v <= BoxHigh

action_space_contains(x) ==
    /\ DOMAIN x = 1..num_pitches
    /\ \A i \in DOMAIN x : BoxContainsElem(x[i])

observation_space_contains(o) ==
    /\ DOMAIN o = 1..max_trajectory_len
    /\ \A k \in DOMAIN o :
        /\ DOMAIN o[k] = 1..num_pitches
        /\ \A i \in DOMAIN o[k] : BoxContainsElem(o[k][i])

\* The instance's fields, with the contents of the array obs_trajectory names.
Snapshot ==
    [obs |-> obs_trajectory, trajectory |-> heap[obs_trajectory],
     idx |-> trajectory_idx, total_reward |-> total_reward,
     partial_rewards |-> partial_rewards]

\* ---------------------------------------------------------- get_initial_ob
get_initial_ob == [k \in 1..max_trajectory_len |-> [i \in 1..num_pitches |-> 0]]

\* ------------------------------------------------------------- calc_reward
\* reward.calc_reward(trajectory, t) -> (reward, info): a deterministic function
\* of the buffer and the cursor.  It scores the row the cursor has just passed
\* and reports only the components that contributed.
RowIsRest(row) == \A i \in DOMAIN row : row[i] = 0

RewardParts(trajectory, t) ==
    LET row == trajectory[t]
    IN [note |-> Cardinality({i \in DOMAIN row : row[i] >= 2}),
        rest |-> IF RowIsRest(row) THEN -1 ELSE 0,
        repeat |-> IF t > 1 /\ trajectory[t - 1] = row /\ ~RowIsRest(row)
                   THEN -2 ELSE 0]

calc_reward(trajectory, t) ==
    LET parts == RewardParts(trajectory, t)
        keys == {k \in {"note", "rest", "repeat"} : parts[k] # 0}
    IN [reward |-> parts.note + parts.rest + parts.repeat,
        info |-> [k \in keys |-> parts[k]]]

\* ------------------------------------------------------------- midi_writer
\* convert_observation_to_midi_sequence(rows): one event per sounding voice.
convert_observation_to_midi_sequence(rows) ==
    [k \in DOMAIN rows |->
        {<<i, rows[k][i]>> : i \in {j \in DOMAIN rows[k] : rows[k][j] # 0}}]

\* Mutant of tolist: only the rows below the cursor are listed.
tolistFilledRows(id) == SubSeq(heap[id], 1, trajectory_idx)

\* ndarray.tolist(): the rows of the array a reference names, as a list of lists.
tolist(id) == heap[id]

\* -------------------------------------------------------------------- step
\* self.obs_trajectory[self.trajectory_idx] = action raises IndexError unless
\* -L <= trajectory_idx < L.
IndexInBounds(idx) == -max_trajectory_len <= idx /\ idx < max_trajectory_len

\* Mutant of WriteRow: the action is clipped to the pitch codes before it is stored.
WriteRowClipped(buf, idx, action) ==
    [buf EXCEPT ![idx + 1] =
        [i \in DOMAIN action |->
            IF action[i] < 0 THEN 0 ELSE IF action[i] > 36 THEN 36 ELSE action[i]]]

\* Mutant of WriteRow: the buffer is rebuilt around the new row.
WriteRowOnFreshBuffer(buf, idx, action) ==
    [k \in DOMAIN buf |->
        IF k = idx + 1 THEN action ELSE [i \in DOMAIN buf[k] |-> 0]]

\* line 63: the row at the cursor becomes the action (source row idx is row idx+1).
WriteRow(buf, idx, action) == [buf EXCEPT ![idx + 1] = action]

\* line 64
NextIdx(idx) == idx + 1

\* Mutant of AddReward: the total is overwritten, not added to.
AddRewardOverwrites(total, reward) == reward

\* line 67
AddReward(total, reward) == total + reward

\* Mutant of Terminated: the comparison is strict.
TerminatedStrict(idx) == idx > max_trajectory_len

\* line 70
Terminated(idx) == idx >= max_trajectory_len

\* line 72
Truncated == FALSE

\* Mutant of Accumulate: the entry is assigned, not added to.
AccumulateOverwrites(ledger, info) ==
    [k \in DOMAIN ledger \cup DOMAIN info |->
        IF k \in DOMAIN info THEN info[k] ELSE ledger[k]]

\* lines 73-74, on a defaultdict(int): a missing key counts as 0.
Accumulate(ledger, info) ==
    [k \in DOMAIN ledger \cup DOMAIN info |->
        (IF k \in DOMAIN ledger THEN ledger[k] ELSE 0)
        + (IF k \in DOMAIN info THEN info[k] ELSE 0)]

\* Mutant of StepReturn: the running totals are returned.
StepReturnsTotals(obs, reward, terminated, truncated, info) ==
    [op |-> "step", raised |-> FALSE, obs |-> obs,
     reward |-> total_reward + reward,
     terminated |-> terminated, truncated |-> truncated,
     info |-> [k \in DOMAIN partial_rewards \cup DOMAIN info |->
                (IF k \in DOMAIN partial_rewards THEN partial_rewards[k] ELSE 0)
                + (IF k \in DOMAIN info THEN info[k] ELSE 0)]]

\* line 75
StepReturn(obs, reward, terminated, truncated, info) ==
    [op |-> "step", raised |-> FALSE, obs |-> obs, reward |-> reward,
     terminated |-> terminated, truncated |-> truncated, info |-> info]

\* Mutant of StepOn: calc_reward is called before the action is written.
StepOnScoresBeforeWrite(st, action) ==
    LET buf == WriteRow(st.trajectory, st.idx, action)
        idx == NextIdx(st.idx)
        r == calc_reward(st.trajectory, idx)
    IN [trajectory |-> buf,
        idx |-> idx,
        total_reward |-> AddReward(st.total_reward, r.reward),
        partial_rewards |-> Accumulate(st.partial_rewards, r.info),
        scored |-> [trajectory |-> st.trajectory, t |-> idx],
        returned |-> StepReturn(st.obs, r.reward, Terminated(idx), Truncated, r.info)]

\* lines 63-75 on the fields st of an instance: the fields afterwards, with what
\* step returns.
StepOn(st, action) ==
    LET buf == WriteRow(st.trajectory, st.idx, action)
        idx == NextIdx(st.idx)
        r == calc_reward(buf, idx)
    IN [trajectory |-> buf,
        idx |-> idx,
        total_reward |-> AddReward(st.total_reward, r.reward),
        partial_rewards |-> Accumulate(st.partial_rewards, r.info),
        scored |-> [trajectory |-> buf, t |-> idx],
        returned |-> StepReturn(st.obs, r.reward, Terminated(idx), Truncated, r.info)]

Step(action) ==
    /\ IndexInBounds(trajectory_idx)
    /\ LET after == StepOn(Snapshot, action)
       IN /\ heap' = [heap EXCEPT ![obs_trajectory] = after.trajectory]
          /\ trajectory_idx' = after.idx
          /\ total_reward' = after.total_reward
          /\ partial_rewards' = after.partial_rewards
          /\ ret' = after.returned
          /\ actions' = Append(actions, action)
          /\ rewards' = Append(rewards, after.returned.reward)
          /\ infos' = Append(infos, after.returned.info)
          /\ scored' = Append(scored, after.scored)
    /\ before' = Snapshot
    /\ UNCHANGED <<config, obs_trajectory, files, stale, began, dir_calls, caller>>

\* Mutant of StepRaises: the cursor is advanced before the write raises.
StepRaisesAfterIncrement(action) ==
    /\ ~IndexInBounds(trajectory_idx)
    /\ trajectory_idx' = trajectory_idx + 1
    /\ ret' = [op |-> "step", raised |-> TRUE]
    /\ before' = Snapshot
    /\ UNCHANGED <<config, heap, obs_trajectory, total_reward, partial_rewards,
                   files, history, stale, began, dir_calls, caller>>

\* step with the cursor out of bounds: line 63 raises before anything is assigned.
StepRaises(action) ==
    /\ ~IndexInBounds(trajectory_idx)
    /\ ret' = [op |-> "step", raised |-> TRUE]
    /\ before' = Snapshot
    /\ UNCHANGED <<config, env, files, history, stale, began, dir_calls, caller>>

\* ------------------------------------------------------------------- reset
\* Mutant of FreshBuf: the array in use is zeroed in place.
FreshBufInPlace == obs_trajectory

\* line 56: a new array; the old one lives on only while something refers to it.
FreshBuf == CHOOSE id \in BufIds : id # obs_trajectory /\ id \notin held

\* Mutant of ResetTotalReward: the total is carried into the new episode.
ResetKeepsTotalReward == total_reward

\* line 57
ResetTotalReward == 0

\* Mutant of ResetIdx: the cursor is carried into the new episode.
ResetKeepsIdx == trajectory_idx

\* line 58
ResetIdx == 0

\* Mutant of ResetPartialRewards: the ledger is carried into the new episode.
ResetKeepsPartialRewards == partial_rewards

\* line 59
ResetPartialRewards == EmptyMap

\* line 60
ResetReturn(obs) == [op |-> "reset", raised |-> FALSE, obs |-> obs, info |-> EmptyMap]

Reset ==
    /\ obs_trajectory' = FreshBuf
    /\ heap' = [id \in BufIds |->
                IF id = FreshBuf THEN get_initial_ob
                ELSE IF id \in held THEN heap[id] ELSE Free]
    /\ total_reward' = ResetTotalReward
    /\ trajectory_idx' = ResetIdx
    /\ partial_rewards' = ResetPartialRewards
    /\ ret' = ResetReturn(FreshBuf)
    /\ actions' = <<>>
    /\ rewards' = <<>>
    /\ infos' = <<>>
    /\ scored' = <<>>
    /\ before' = Snapshot
    /\ stale' = (trajectory_idx > 0 /\ DOMAIN partial_rewards # {})
    /\ began' = "reset"
    /\ frozen' = IF obs_trajectory \in held THEN <<heap[obs_trajectory]>> ELSE frozen
    /\ UNCHANGED <<config, files, dir_calls, held>>

\* --------------------------------------------------------------- save_midi
\* Mutant of MergeInfo: the entry is assigned, not added to.
MergeInfoOverwrites(total_info, info) ==
    [k \in DOMAIN total_info \cup DOMAIN info |->
        IF k \in DOMAIN info THEN info[k] ELSE total_info[k]]

\* line 87
MergeInfo(total_info, info) ==
    [k \in DOMAIN total_info \cup DOMAIN info |->
        IF k \in DOMAIN info
        THEN (IF k \in DOMAIN total_info THEN total_info[k] ELSE 0) + info[k]
        ELSE total_info[k]]

\* lines 81-87: for t in range(1, len(trajectory))
RECURSIVE SaveMidiLoop(_, _, _)
SaveMidiLoop(trajectory, t, acc) ==
    IF t >= Len(trajectory) THEN acc
    ELSE LET r == calc_reward(trajectory, t)
         IN SaveMidiLoop(trajectory, t + 1,
                [total_reward |-> acc.total_reward + r.reward,
                 total_info |-> MergeInfo(acc.total_info, r.info),
                 calls |-> Append(acc.calls, [trajectory |-> trajectory, t |-> t])])

\* Mutant of MidiFile: the file is written whether or not a directory is given.
MidiFileAlways(savedir, stamp, render_trajectory) ==
    <<[dir |-> savedir, stamp |-> stamp, ep |-> Len(render_trajectory)]>>

\* lines 94-98 and 112-116: the file written, if a directory is given.
MidiFile(savedir, stamp, render_trajectory) ==
    IF savedir # ""
    THEN <<[dir |-> savedir, stamp |-> stamp, ep |-> Len(render_trajectory)]>>
    ELSE <<>>

SaveMidi(id, savedir) ==
    /\ savedir = "" \/ files < MaxFiles
    /\ LET render_trajectory == tolist(id)
           acc == SaveMidiLoop(heap[id], 1,
                      [total_reward |-> 0, total_info |-> EmptyMap, calls |-> <<>>])
           written == MidiFile(savedir, "%m-%d-%y_%H%M", render_trajectory)
       IN /\ ret' = [op |-> "save_midi", raised |-> FALSE,
                     total_reward |-> acc.total_reward, info |-> acc.total_info,
                     trajectory |-> render_trajectory,
                     midi |-> convert_observation_to_midi_sequence(render_trajectory),
                     calls |-> acc.calls, savedir |-> savedir,
                     written |-> written]
          /\ files' = files + Len(written)
    /\ dir_calls' = dir_calls + (IF savedir # "" THEN 1 ELSE 0)
    /\ before' = Snapshot
    /\ UNCHANGED <<config, env, history, stale, began, caller>>

\* ------------------------------------------------------------------ render
Render ==
    /\ midi_savedir = "" \/ files < MaxFiles
    /\ LET render_trajectory == tolist(obs_trajectory)
           written == MidiFile(midi_savedir, "%m-%d-%y_%H%M%s", render_trajectory)
       IN /\ ret' = [op |-> "render", raised |-> FALSE,
                     total_reward |-> total_reward, info |-> partial_rewards,
                     trajectory |-> render_trajectory,
                     midi |-> convert_observation_to_midi_sequence(render_trajectory),
                     written |-> written]
          /\ files' = files + Len(written)
    /\ dir_calls' = dir_calls + (IF midi_savedir # "" THEN 1 ELSE 0)
    /\ before' = Snapshot
    /\ UNCHANGED <<config, env, history, stale, began, caller>>

\* ---------------------------------------------------------------- __init__
\* Mutant of InitPartialRewards: the ledger starts with an entry at 0.
InitLedgerSeeded == [k \in {"note"} |-> 0]

\* line 42
InitPartialRewards == EmptyMap

Init ==
    /\ \E c \in Configs : max_trajectory_len = c[1] /\ num_pitches = c[2]
    /\ midi_savedir \in SaveDirs
    /\ obs_trajectory = 1
    /\ heap = [id \in BufIds |-> IF id = 1 THEN get_initial_ob ELSE Free]
    /\ trajectory_idx = 0
    /\ total_reward = 0
    /\ partial_rewards = InitPartialRewards
    /\ files = 0
    /\ ret = [op |-> "init", raised |-> FALSE]
    /\ actions = <<>>
    /\ rewards = <<>>
    /\ infos = <<>>
    /\ scored = <<>>
    /\ before = Snapshot
    /\ stale = FALSE
    /\ began = "init"
    /\ dir_calls = 0
    /\ held = {}
    /\ frozen = <<>>

Next ==
    \/ \E action \in ActionInputs(num_pitches) : Step(action)
    \/ \E action \in ActionInputs(num_pitches) : StepRaises(action)
    \/ Reset
    \/ Render
    \/ \E savedir \in SaveDirs : SaveMidi(obs_trajectory, savedir)

Spec == Init /\ [][Next]_vars

\* ------------------------------------------------------------- the caller
\* The caller keeps the observation reset or step has just returned (lines 60
\* and 75 return self.obs_trajectory itself), letting go of the one it kept
\* before.
Keep ==
    /\ ret.op \in {"reset", "step"} /\ ~ret.raised
    /\ held' = {ret.obs}
    /\ frozen' = <<>>
    /\ heap' = [id \in BufIds |->
                IF id = obs_trajectory \/ id = ret.obs THEN heap[id] ELSE Free]
    /\ UNCHANGED <<config, obs_trajectory, trajectory_idx, total_reward,
                   partial_rewards, files, ret, history, before, stale, began,
                   dir_calls>>

\* Instances small enough to follow a kept array through later episodes.
AliasConfigs == {<<1, 1>>, <<2, 1>>, <<2, 2>>}

InitAlias ==
    /\ Init
    /\ <<max_trajectory_len, num_pitches>> \in AliasConfigs
    /\ midi_savedir = ""

NextAlias ==
    \/ \E action \in ActionInputs(num_pitches) : Step(action)
    \/ \E action \in ActionInputs(num_pitches) : StepRaises(action)
    \/ Reset
    \/ Render
    \/ Keep

SpecAlias == InitAlias /\ [][NextAlias]_vars

\* ================================================================== claims
Buf == heap[obs_trajectory]

IsZeroRow(row, n) == DOMAIN row = 1..n /\ \A i \in 1..n : row[i] = 0

IsZeroArray(o, len, n) == DOMAIN o = 1..len /\ \A k \in 1..len : IsZeroRow(o[k], n)

StepReturned == ret.op = "step" /\ ~ret.raised

\* C1: reset can be called in every reachable state; right after it the
\* trajectory is all zero with shape (max_trajectory_len, num_pitches), the
\* cursor is 0, the cumulative reward is 0, the ledger is empty, and reset
\* returned that trajectory with an empty info.
C1_ResetZeroes ==
    /\ ENABLED Reset
    /\ ret.op = "reset" =>
        /\ ~ret.raised
        /\ ret.obs = obs_trajectory
        /\ IsZeroArray(heap[ret.obs], max_trajectory_len, num_pitches)
        /\ trajectory_idx = 0
        /\ total_reward = 0
        /\ DOMAIN partial_rewards = {}
        /\ DOMAIN ret.info = {}

\* A reset made mid-episode, with rewards and ledger entries to discard.
C1_Witness ==
    /\ ret.op = "reset"
    /\ before.idx > 0 /\ before.idx < max_trajectory_len
    /\ before.total_reward # 0
    /\ DOMAIN before.partial_rewards # {}

\* C2: after a reset, terminated is false on the first max_trajectory_len - 1
\* step calls and true on call max_trajectory_len, which is exactly when the
\* cursor equals max_trajectory_len after the increment; truncated is false.
C2_TerminatedAtMaxLength ==
    StepReturned =>
        /\ ret.terminated = (Len(actions) = max_trajectory_len)
        /\ ret.terminated = (trajectory_idx = max_trajectory_len)
        /\ ret.truncated = FALSE

\* The last step of an episode of more than one step.
C2_Witness ==
    /\ StepReturned /\ ret.terminated
    /\ max_trajectory_len > 1 /\ Len(actions) = max_trajectory_len

\* C3: total_reward is the sum of the rewards step returned since the last
\* reset, or since construction.
C3_TotalIsSumOfRewards == total_reward = SumSeq(rewards)

\* An episode's end, after several rewarded steps.
C3_Witness ==
    /\ trajectory_idx = max_trajectory_len
    /\ Len(rewards) >= 3
    /\ \A k \in 1..Len(rewards) : rewards[k] # 0
    /\ total_reward # rewards[Len(rewards)]

\* C4: rows below the cursor hold the actions supplied since the last reset,
\* in order, and rows from the cursor on are all zero; the observation reset
\* or step returned is that array.
RowsAreActionsThenZero(o) ==
    /\ DOMAIN o = 1..max_trajectory_len
    /\ \A k \in 1..max_trajectory_len :
        IF k <= trajectory_idx
        THEN o[k] = actions[k]
        ELSE IsZeroRow(o[k], num_pitches)

C4_RowsBelowCursorAreActions ==
    /\ RowsAreActionsThenZero(Buf)
    /\ (ret.op = "reset" \/ StepReturned) => RowsAreActionsThenZero(heap[ret.obs])
    /\ (max_trajectory_len = 4 /\ num_pitches = 2 /\ actions = << <<5, 0>> >>)
        => Buf = << <<5, 0>>, <<0, 0>>, <<0, 0>>, <<0, 0>> >>
    /\ (max_trajectory_len = 4 /\ num_pitches = 2
            /\ actions = << <<5, 0>>, <<0, 0>>, <<7, 1>>, <<1, 1>> >>)
        => Buf = << <<5, 0>>, <<0, 0>>, <<7, 1>>, <<1, 1>> >>

\* The four-step, two-voice episode after its last step.
C4_Witness ==
    /\ StepReturned
    /\ max_trajectory_len = 4 /\ num_pitches = 2
    /\ actions = << <<5, 0>>, <<0, 0>>, <<7, 1>>, <<1, 1>> >>

\* C5: the cursor is 0 after construction and after reset, grows by exactly 1
\* in each step that returns, is left alone by every other call, and stays
\* within 0..max_trajectory_len.
C5_CursorCountsSteps ==
    /\ 0 <= trajectory_idx /\ trajectory_idx <= max_trajectory_len
    /\ trajectory_idx = Len(actions)
    /\ ret.op \in {"init", "reset"} => trajectory_idx = 0
    /\ StepReturned => trajectory_idx = before.idx + 1
    /\ (ret.op = "step" /\ ret.raised) => trajectory_idx = before.idx
    /\ ret.op \in {"render", "save_midi"} => trajectory_idx = before.idx

\* A step attempted after the episode ended.
C5_Witness ==
    /\ ret.op = "step" /\ ret.raised
    /\ trajectory_idx = max_trajectory_len

\* C6: the ledger's keys are exactly the keys of the infos calc_reward returned
\* in the steps since the last reset, each entry is the sum of that key's
\* values over those steps, and a step removes no entry and changes an entry
\* only by adding that step's value.
RECURSIVE SumKey(_, _)
SumKey(seq, key) ==
    IF seq = <<>> THEN 0
    ELSE (IF key \in DOMAIN seq[1] THEN seq[1][key] ELSE 0) + SumKey(Tail(seq), key)

C6_LedgerIsPureAccumulation ==
    /\ DOMAIN partial_rewards = UNION {DOMAIN infos[k] : k \in 1..Len(infos)}
    /\ \A key \in DOMAIN partial_rewards : partial_rewards[key] = SumKey(infos, key)
    /\ StepReturned =>
        /\ DOMAIN before.partial_rewards \subseteq DOMAIN partial_rewards
        /\ \A key \in DOMAIN partial_rewards :
            partial_rewards[key] =
                (IF key \in DOMAIN before.partial_rewards
                 THEN before.partial_rewards[key] ELSE 0)
                + (IF key \in DOMAIN ret.info THEN ret.info[key] ELSE 0)

\* A step that adds to an entry, creates another and leaves a third alone.
C6_Witness ==
    /\ StepReturned
    /\ \E a, b, c \in DOMAIN partial_rewards :
        /\ a \in DOMAIN before.partial_rewards /\ a \in DOMAIN ret.info
        /\ b \notin DOMAIN before.partial_rewards /\ b \in DOMAIN ret.info
        /\ c \in DOMAIN before.partial_rewards /\ c \notin DOMAIN ret.info

\* The fields of an instance after Init or reset.
FreshEpisode ==
    [obs |-> obs_trajectory,
     trajectory |-> [k \in 1..max_trajectory_len |-> [i \in 1..num_pitches |-> 0]],
     idx |-> 0, total_reward |-> 0, partial_rewards |-> EmptyMap]

\* The fields after feeding the rows, in order, to step from a fresh episode.
RECURSIVE LiveEpisode(_)
LiveEpisode(rows) ==
    IF rows = <<>> THEN FreshEpisode
    ELSE LET st == LiveEpisode(SubSeq(rows, 1, Len(rows) - 1))
             after == StepOn(st, rows[Len(rows)])
         IN [obs |-> st.obs, trajectory |-> after.trajectory, idx |-> after.idx,
             total_reward |-> after.total_reward,
             partial_rewards |-> after.partial_rewards,
             returned |-> after.returned]

RECURSIVE SumScores(_, _)
SumScores(trajectory, t) ==
    IF t < 1 THEN 0
    ELSE calc_reward(trajectory, t).reward + SumScores(trajectory, t - 1)

\* C7: save_midi on a trajectory of N rows reports as total reward the sum of
\* calc_reward(trajectory, t) for t in 1..N-1, and that total is the
\* total_reward that step calls fed the same N rows after a reset accumulate.
C7_SaveMidiMatchesLive ==
    ret.op = "save_midi" =>
        /\ ret.total_reward = SumScores(ret.trajectory, Len(ret.trajectory) - 1)
        /\ ret.total_reward = LiveEpisode(ret.trajectory).total_reward

\* C8: whatever happened before the last reset, the fields and everything
\* step returns are those of feeding the actions supplied since that reset to
\* a fresh instance: nothing of an earlier episode is carried over.
C8_NoCarryOver ==
    LET e == LiveEpisode(actions)
    IN /\ Buf = e.trajectory
       /\ trajectory_idx = e.idx
       /\ total_reward = e.total_reward
       /\ partial_rewards = e.partial_rewards
       /\ StepReturned =>
            /\ heap[ret.obs] = e.trajectory
            /\ ret.reward = e.returned.reward
            /\ ret.info = e.returned.info
            /\ ret.terminated = e.returned.terminated
            /\ ret.truncated = e.returned.truncated

\* Steps of an episode begun by a reset that discarded an earlier episode.
C8_Witness ==
    /\ stale
    /\ StepReturned
    /\ Len(actions) >= 2
    /\ DOMAIN partial_rewards # {}

\* C9: step returns the reward and the info calc_reward gave for this step
\* alone, and as observation the whole max_trajectory_len-row array.
C9_StepReturnsOwnScore ==
    StepReturned =>
        LET score == calc_reward(Buf, trajectory_idx)
        IN /\ ret.reward = score.reward
           /\ ret.info = score.info
           /\ ret.obs = obs_trajectory
           /\ DOMAIN heap[ret.obs] = 1..max_trajectory_len

\* A step whose own reward and info differ from the running totals, with rows
\* still to fill.
C9_Witness ==
    /\ StepReturned
    /\ trajectory_idx < max_trajectory_len
    /\ ret.reward # total_reward
    /\ ret.info # partial_rewards
    /\ ret.reward # 0

\* Vectors and arrays to test the spaces with: values around both bounds at
\* one position, and shapes one voice or one row too long.
ProbeValues == {-1, 0, 36, 37, 38}

ProbeVector(n, at, v) == [i \in 1..n |-> IF i = at THEN v ELSE 0]

ProbeArray(len, at, v) ==
    [k \in 1..len |-> [i \in 1..num_pitches |-> IF <<k, i>> = at THEN v ELSE 0]]

\* Right after construction the spaces hold exactly the probes of the right
\* shape with elements in lo..hi; and an action step took, and the array it
\* left, are in their spaces exactly if their elements are in lo..hi.
SpacesAre(lo, hi) ==
    /\ ret.op = "init" =>
        /\ \A n \in {num_pitches, num_pitches + 1}, at \in 1..num_pitches,
              v \in ProbeValues :
            LET x == ProbeVector(n, at, v)
            IN action_space_contains(x)
                <=> (DOMAIN x = 1..num_pitches /\ \A i \in DOMAIN x : x[i] \in lo..hi)
        /\ \A len \in {max_trajectory_len, max_trajectory_len + 1},
              at \in (1..max_trajectory_len) \X (1..num_pitches), v \in ProbeValues :
            LET o == ProbeArray(len, at, v)
            IN observation_space_contains(o)
                <=> (/\ DOMAIN o = 1..max_trajectory_len
                     /\ \A k \in DOMAIN o : \A i \in DOMAIN o[k] : o[k][i] \in lo..hi)
    /\ StepReturned =>
        /\ action_space_contains(actions[Len(actions)])
            <=> \A i \in 1..num_pitches : actions[Len(actions)][i] \in lo..hi
        /\ observation_space_contains(Buf)
            <=> \A k \in 1..max_trajectory_len :
                    \A i \in 1..num_pitches : Buf[k][i] \in lo..hi

\* C10, as claimed: the action space holds exactly the vectors of num_pitches
\* integers in 0..36, and the observation space the arrays of shape
\* (max_trajectory_len, num_pitches) with elements in 0..36.
C10_SpacesExcludeHigh == SpacesAre(0, 36)

\* C10, amended: the bound 37 is inclusive, so the action space holds exactly
\* the vectors of num_pitches integers in 0..37, and the observation space the
\* arrays of shape (max_trajectory_len, num_pitches) with elements in 0..37.
C10_SpacesIncludeHigh == SpacesAre(0, 37)

\* A step took an action holding 37, which the action space contains, and the
\* observation holding it is in the observation space.
C10_Witness ==
    /\ StepReturned
    /\ \E i \in 1..num_pitches : actions[Len(actions)][i] = 37
    /\ num_pitches = 1
    /\ action_space_contains(actions[Len(actions)])
    /\ observation_space_contains(Buf)

\* C12: each step that returns calls calc_reward exactly once, after writing
\* the action and advancing the cursor, with the whole array and the new cursor
\* c: rows below c are the actions so far, the rest are zero, and the cursors
\* of an episode's calls are 1, 2, ..., in order.
C12_ScoredOncePerStepAfterWrite ==
    /\ Len(scored) = Len(actions)
    /\ \A c \in 1..Len(scored) :
        /\ scored[c].t = c
        /\ DOMAIN scored[c].trajectory = 1..max_trajectory_len
        /\ \A k \in 1..max_trajectory_len :
            IF k <= c
            THEN scored[c].trajectory[k] = actions[k]
            ELSE IsZeroRow(scored[c].trajectory[k], num_pitches)
    /\ StepReturned =>
        /\ scored[Len(scored)].t = before.idx + 1
        /\ ret.reward =
            calc_reward(scored[Len(scored)].trajectory, scored[Len(scored)].t).reward

\* A whole episode of several sounding steps has been scored.
C12_Witness ==
    /\ StepReturned
    /\ max_trajectory_len >= 2
    /\ Len(scored) = max_trajectory_len
    /\ \A k \in 1..Len(actions) : ~RowIsRest(actions[k])

\* The sum of key's values over the infos calc_reward gives for cursors 1..t.
RECURSIVE SumInfoKey(_, _, _)
SumInfoKey(trajectory, t, key) ==
    IF t < 1 THEN 0
    ELSE (IF key \in DOMAIN calc_reward(trajectory, t).info
          THEN calc_reward(trajectory, t).info[key] ELSE 0)
         + SumInfoKey(trajectory, t - 1, key)

\* C13: save_midi on a trajectory of N rows calls calc_reward once for each
\* cursor 1, 2, ..., N-1 in that order, never for 0 or N, each time with the
\* whole trajectory, and the info it reports holds for each key the sum of that
\* key's values over those calls.
C13_SaveMidiScoresOneToNMinusOne ==
    ret.op = "save_midi" =>
        LET N == Len(ret.trajectory)
        IN /\ Len(ret.calls) = N - 1
           /\ \A c \in 1..Len(ret.calls) :
                ret.calls[c].t = c /\ ret.calls[c].trajectory = ret.trajectory
           /\ DOMAIN ret.info =
                UNION {DOMAIN calc_reward(ret.trajectory, t).info : t \in 1..(N - 1)}
           /\ \A key \in DOMAIN ret.info :
                ret.info[key] = SumInfoKey(ret.trajectory, N - 1, key)

\* save_midi on a finished four-row trajectory whose info sums a key over
\* several calls and whose last row would have added to it.
C13_Witness ==
    /\ ret.op = "save_midi"
    /\ Len(ret.trajectory) = 4 /\ trajectory_idx = 4
    /\ "note" \in DOMAIN ret.info /\ ret.info["note"] >= 3
    /\ "note" \in DOMAIN calc_reward(ret.trajectory, 4).info

\* C11: the trajectory array belongs to the instance alone: whatever a caller
\* keeps from the return values of reset, step and render, it is never the
\* array the instance goes on reading and writing.
C11_BufferNeverShared == \A id \in held : id # obs_trajectory

\* C19: reset installs a new array and leaves the old one alone: an observation
\* a caller kept from an earlier episode holds, through the reset and every
\* later step, what it held when the reset was called.
C19_OldObservationSurvivesReset ==
    frozen # <<>> =>
        \A id \in held : id # obs_trajectory /\ heap[id] = frozen[1]

\* A kept observation with notes in it, two steps into a later episode whose
\* array differs from it.
C19_Witness ==
    /\ frozen # <<>>
    /\ \E id \in held : \E k \in DOMAIN heap[id] : ~RowIsRest(heap[id][k])
    /\ StepReturned
    /\ trajectory_idx >= 2
    /\ Buf # frozen[1]

OutOfRange(action) == \E i \in DOMAIN action : action[i] \notin 0..36

C15_OutOfRangeActionStored ==
    /\ trajectory_idx < max_trajectory_len =>
        \A action \in ActionInputs(num_pitches) :
            OutOfRange(action) => ~ENABLED StepRaises(action)
    /\ (StepReturned /\ OutOfRange(actions[Len(actions)])) =>
        LET score == calc_reward(Buf, trajectory_idx)
        IN /\ trajectory_idx = before.idx + 1
           /\ Buf[trajectory_idx] = actions[Len(actions)]
           /\ \A k \in 1..max_trajectory_len :
                k # trajectory_idx => Buf[k] = before.trajectory[k]
           /\ ret.reward = score.reward /\ ret.info = score.info
           /\ total_reward = before.total_reward + score.reward
           /\ DOMAIN partial_rewards =
                DOMAIN before.partial_rewards \cup DOMAIN score.info
           /\ \A key \in DOMAIN partial_rewards :
                partial_rewards[key] =
                    (IF key \in DOMAIN before.partial_rewards
                     THEN before.partial_rewards[key] ELSE 0)
                    + (IF key \in DOMAIN score.info THEN score.info[key] ELSE 0)

\* A step has stored 37 and 38 as given and been rewarded for them.
C15_Witness ==
    /\ StepReturned
    /\ num_pitches = 2
    /\ Buf[trajectory_idx] = <<37, 38>>
    /\ ret.reward # 0
    /\ total_reward # ret.reward

\* C16: construction leaves the instance as reset does, with an all-zero
\* trajectory of shape (max_trajectory_len, num_pitches), cursor 0, cumulative
\* reward 0 and an empty ledger, so an episode stepped straight after
\* construction runs as one stepped after a reset.
C16_ConstructionIsAReset ==
    /\ ret.op \in {"init", "reset"} =>
        /\ IsZeroArray(Buf, max_trajectory_len, num_pitches)
        /\ trajectory_idx = 0
        /\ total_reward = 0
        /\ DOMAIN partial_rewards = {}
    /\ began = "init" =>
        LET e == LiveEpisode(actions)
        IN /\ Buf = e.trajectory
           /\ trajectory_idx = e.idx
           /\ total_reward = e.total_reward
           /\ partial_rewards = e.partial_rewards
           /\ StepReturned =>
                /\ ret.reward = e.returned.reward
                /\ ret.info = e.returned.info
                /\ ret.terminated = e.returned.terminated
                /\ ret.truncated = e.returned.truncated

\* An episode stepped to its end without any reset since construction.
C16_Witness ==
    /\ began = "init"
    /\ StepReturned /\ ret.terminated
    /\ Len(actions) >= 2
    /\ total_reward # 0
    /\ DOMAIN partial_rewards # {}

\* C17: render only observes: whenever it is called it leaves the trajectory,
\* the cursor, the cumulative reward and the ledger as they were, and what it
\* converts and reports is the whole array, max_trajectory_len rows whatever
\* the cursor.
C17_RenderIsObserver ==
    ret.op = "render" =>
        /\ Snapshot = before
        /\ ret.trajectory = Buf
        /\ Len(ret.trajectory) = max_trajectory_len
        /\ DOMAIN ret.midi = 1..max_trajectory_len
        /\ ret.midi = convert_observation_to_midi_sequence(Buf)
        /\ ret.total_reward = total_reward
        /\ ret.info = partial_rewards
        /\ \A k \in 1..Len(ret.written) : ret.written[k].ep = max_trajectory_len

\* render mid-episode, with rows filled, rows to fill and a ledger to report.
C17_Witness ==
    /\ ret.op = "render"
    /\ 0 < trajectory_idx /\ trajectory_idx < max_trajectory_len
    /\ DOMAIN partial_rewards # {}
    /\ total_reward # 0

\* C18: step called with the cursor at max_trajectory_len raises from the
\* write before anything is changed: trajectory, cursor, cumulative reward and
\* ledger are as before, calc_reward is not called, and reset can still be
\* called and begins an ordinary episode.
C18_StepPastEndRaisesCleanly ==
    /\ trajectory_idx = max_trajectory_len =>
        \A action \in ActionInputs(num_pitches) :
            ENABLED StepRaises(action) /\ ~ENABLED Step(action)
    /\ (ret.op = "step" /\ ret.raised) =>
        /\ before.idx = max_trajectory_len
        /\ Snapshot = before
        /\ Len(scored) = max_trajectory_len
        /\ Len(rewards) = max_trajectory_len
        /\ ENABLED Reset
    /\ (ret.op = "reset" /\ before.idx = max_trajectory_len) =>
        /\ IsZeroArray(Buf, max_trajectory_len, num_pitches)
        /\ trajectory_idx = 0 /\ total_reward = 0 /\ DOMAIN partial_rewards = {}
        /\ \A action \in ActionInputs(num_pitches) : ~ENABLED StepRaises(action)

\* A step refused after an episode that earned rewards and ledger entries.
C18_Witness ==
    /\ ret.op = "step" /\ ret.raised
    /\ max_trajectory_len >= 2
    /\ total_reward # 0
    /\ DOMAIN partial_rewards # {}

====
